---- MODULE Spec2Model ----
(***************************************************************************)
(* The session protocol engine of the nutrition scanner backend            *)
(* (package server): one handler goroutine per WebSocket connection, the   *)
(* shared tempImageData map (the pending-scan store), the clients registry *)
(* and the two SQLite tables behind database.DB.                           *)
(*                                                                         *)
(* Each handler is a small program counter machine.  A step is one access  *)
(* to shared state (sync.Map Load / Delete / Store, one database call) or  *)
(* one return of the external Analyzer, together with the local code       *)
(* around it, so every interleaving of the goroutines the Go scheduler can *)
(* produce is an interleaving of these steps.                              *)
(***************************************************************************)
EXTENDS Integers, Sequences, FiniteSets, TLC

\* ------------------------------------------------------------------ bounds
NumConns == 2           \* connections accepted during a run
MaxMsgs  == 3           \* inbound messages read, over all connections
MaxClock == 1           \* last instant of the wall clock
DayLen   == 2           \* clock instants per calendar day
MaxRows  == 2           \* rows of nutritional_info found at server start

Conns == 1..NumConns

VARIABLES
    pc,               \* pc[c]: where connection c's handler goroutine stands
    alive,            \* alive[c]: the peer's end of connection c is still open
    msgs,             \* messages ReadMessage has returned, on all connections
    loc,              \* loc[c]: the handler's local variables for the message in hand
    sent,             \* the WriteJSON call of the latest step, if it made one
    issued,           \* the scan_result messages written so far
    acked,            \* acked[id]: scan_saved replies to confirms naming id
    failed,           \* ids whose confirm was answered with a save error
    clients,          \* Server.clients: the registered connections
    tempImageData,    \* Server.tempImageData: scan id -> decoded image bytes
    nutritional_info, \* table nutritional_info: id -> row
    nutrition_scans,  \* table nutrition_scans: id -> row
    scanResult,       \* id of the Result each saved NutritionScan pointed to
    uuids,            \* uuids[c]: uuid.New() calls made by c's handler so far
    clock             \* time.Now()

vars == <<pc, alive, msgs, loc, sent, issued, acked, failed, clients, tempImageData,
          nutritional_info, nutrition_scans, scanResult, uuids, clock>>

\* --------------------------------------------------------------- JSON values
\* A value of Go's `any` after json.Unmarshal: a float64, a string, another
\* JSON type, or the nil that indexing a map with a missing key yields.
JNum(n)  == [t |-> "num", v |-> n]
JStr(s)  == [t |-> "str", v |-> s]
JBool    == [t |-> "bool", v |-> 0]
Absent   == [t |-> "nil", v |-> 0]
\* A number test that also takes a numeric string for a number.
IsNumLoose(x) == x.t \in {"num", "str"}
IsNum(x) == x.t = "num"
IsStr(x) == x.t = "str"

\* The zero time.Time, earlier than every instant of the clock.
ZeroTime == 0 - 1

\* ------------------------------------------------------------------- base64
\* A base64 text is a sequence of character codes: 0..63 are the characters of
\* the standard alphabet (their sextet), PadChar is '=', larger codes other bytes.
PadChar == 64
DecodeError == <<0 - 1>>

RECURSIVE DecodeQuanta(_)
\* Full quanta of four alphabet characters, three bytes each.
DecodeQuanta(s) ==
    IF s = <<>> THEN <<>>
    ELSE LET n == s[1] * 262144 + s[2] * 4096 + s[3] * 64 + s[4]
         IN  <<n \div 65536, (n \div 256) % 256, n % 256>>
                 \o DecodeQuanta(SubSeq(s, 5, Len(s)))

\* base64.StdEncoding.DecodeString: padded, not strict about trailing bits.
Base64Decode(s) ==
    LET n    == Len(s)
        body == IF n = 0 THEN <<>> ELSE SubSeq(s, 1, n - 4)
        last == IF n = 0 THEN <<>> ELSE SubSeq(s, n - 3, n)
        sext(q) == \A i \in 1..Len(q) : q[i] \in 0..63
    IN  IF n % 4 # 0 THEN DecodeError
        ELSE IF n = 0 THEN <<>>
        ELSE IF ~sext(body) THEN DecodeError
        ELSE IF sext(last) THEN DecodeQuanta(s)
        ELSE IF sext(SubSeq(last, 1, 3)) /\ last[4] = PadChar
             THEN LET m == last[1] * 4096 + last[2] * 64 + last[3]
                  IN  DecodeQuanta(body) \o <<m \div 1024, (m \div 4) % 256>>
        ELSE IF sext(SubSeq(last, 1, 2)) /\ last[3] = PadChar /\ last[4] = PadChar
             THEN DecodeQuanta(body) \o <<(last[1] * 64 + last[2]) \div 16>>
        ELSE DecodeError


\* ------------------------------------------------------------- client inputs
\* "AQID" -> 01 02 03, "/w==" -> ff, and "AQ=D" (padding inside the quantum).
Img1      == <<0, 16, 8, 3>>
Img2      == <<63, 48, PadChar, PadChar>>
ImgBadPad == <<0, 16, PadChar, 3>>

\* data of a scan message from the client of connection c.  Each client has
\* one photograph and one weight to submit, or sends a malformed payload.  A
\* data field that is no JSON object leaves the map nil, and indexing a nil
\* map yields nil for every key: all fields Absent.
Photo(c) ==
    IF c % 2 = 1 THEN [image |-> JStr(Img1), totalWeight |-> JNum(250)]
    ELSE [image |-> JStr(Img2), totalWeight |-> JNum(0 - 5)]
ScanData(c) ==
    {Photo(c),
     [image |-> JStr(ImgBadPad), totalWeight |-> JNum(250)],
     [image |-> JStr(Img1), totalWeight |-> JStr(250)],
     [image |-> Absent, totalWeight |-> Absent]}

\* What ProcessImage can return: a draft (the record a Model builds, with an
\* id of its own and no weight) or an error with some text.
NutrientFields == {"calories", "protein", "carbs", "fat", "fiber", "sugar"}
AnalyzerID == <<0, 0>>
Draft(cal, p, c, f, fb, s) ==
    [ID |-> AnalyzerID, TotalWeight |-> 0, Calories |-> cal, Protein |-> p,
     Carbs |-> c, Fat |-> f, Fiber |-> fb, Sugar |-> s, ImagePath |-> "",
     CreatedAt |-> ZeroTime, UpdatedAt |-> ZeroTime]
Drafts == {Draft(52, 3, 14, 2, 24, 10)}
AnalyzerErrors == {"model not loaded", "no response generated"}

\* The JSON object json.Marshal makes of a models.NutritionalInfo (its tags).
ToJSON(info) ==
    [id |-> info.ID, total_weight |-> info.TotalWeight, calories |-> info.Calories,
     protein |-> info.Protein, carbs |-> info.Carbs, fat |-> info.Fat,
     fiber |-> info.Fiber, sugar |-> info.Sugar, image_path |-> info.ImagePath,
     created_at |-> info.CreatedAt, updated_at |-> info.UpdatedAt]

\* The scan_result messages clients have received, on any connection.
ScanResults == {r.data : r \in {x \in issued : x.delivered}}

\* The numeric fields of a confirm_scan: the draft echoed back as received,
\* an edited draft, and a partial one with missing and wrong-typed fields.
Echo(r) ==
    [total_weight |-> JNum(r.total_weight), calories |-> JNum(r.calories),
     protein |-> JNum(r.protein), carbs |-> JNum(r.carbs), fat |-> JNum(r.fat),
     fiber |-> JNum(r.fiber), sugar |-> JNum(r.sugar)]
Edited ==
    [total_weight |-> JNum(300), calories |-> JNum(60), protein |-> JNum(4),
     carbs |-> JNum(15), fat |-> JNum(5), fiber |-> JNum(6), sugar |-> JNum(7)]
Partial ==
    [total_weight |-> Absent, calories |-> JNum(60), protein |-> JStr(4),
     carbs |-> Absent, fat |-> JNum(5), fiber |-> JBool, sugar |-> Absent]
NoFields ==
    [total_weight |-> Absent, calories |-> Absent, protein |-> Absent,
     carbs |-> Absent, fat |-> Absent, fiber |-> Absent, sugar |-> Absent]
WithID(id, f) == [id |-> id] @@ f

\* data of a confirm_scan message.  uuid strings cannot be guessed: a client
\* names an id it was sent in a scan_result, or some string of its own
\* (BogusID), or no usable id at all.
BogusID == <<0, 1>>
ConfirmData ==
    UNION {{WithID(JStr(r.id), f) : f \in {Echo(r), Partial}} : r \in ScanResults}
    \cup {WithID(JStr(BogusID), Edited), WithID(JNum(7), Edited), WithID(Absent, NoFields)}


\* ---------------------------------------------------------------- the state
EmptyMap       == [k \in {} |-> 0]
Put(f, k, v)   == [x \in DOMAIN f \cup {k} |-> IF x = k THEN v ELSE f[x]]
Remove(f, k)   == [x \in DOMAIN f \ {k} |-> f[x]]

\* The zero models.NutritionalInfo.
ZeroInfo == Draft(0, 0, 0, 0, 0, 0)
\* What the handler has seen of its collaborators for the message in hand:
\* the outcome of ProcessImage, SaveNutritionalInfo and SaveScan.
NoObs    == [analyzer |-> "none", draft |-> ZeroInfo, err |-> "", saveInfo |-> "none",
             saveScan |-> "none"]
NoMsg    == [type |-> Absent]
IdleLoc  == [msg |-> NoMsg, imageData |-> <<>>, info |-> ZeroInfo, obs |-> NoObs]
NoSent   == [conn |-> 0, type |-> "none", delivered |-> FALSE, req |-> NoMsg, obs |-> NoObs]

Init ==
    /\ pc = [c \in Conns |-> "new"]
    /\ alive = [c \in Conns |-> TRUE]
    /\ msgs = 0
    /\ loc = [c \in Conns |-> IdleLoc]
    /\ sent = NoSent
    /\ issued = {}
    /\ acked = EmptyMap
    /\ failed = {}
    /\ clients = {}
    /\ tempImageData = EmptyMap
    /\ nutritional_info = EmptyMap
    /\ nutrition_scans = EmptyMap
    /\ scanResult = EmptyMap
    /\ uuids = [c \in Conns |-> 0]
    /\ clock = 0

\* ------------------------------------------------------------------ writing
\* One WriteJSON call.  A write to a connection whose peer is gone fails, is
\* logged and changes nothing else.  req and obs are bookkeeping: the inbound
\* message the write answers and what the handler saw of its collaborators
\* while handling it.  A step that writes nothing leaves sent at NoSent.
ErrorMsg(c, m, obs, text) ==
    [conn |-> c, type |-> "error", message |-> text,
     delivered |-> alive[c], req |-> m, obs |-> obs]
DataMsg(c, m, obs, type, data) ==
    [conn |-> c, type |-> type, data |-> data,
     delivered |-> alive[c], req |-> m, obs |-> obs]
sendError(c, m, obs, text)         == sent' = ErrorMsg(c, m, obs, text)
sendMessage(c, m, obs, type, data) == sent' = DataMsg(c, m, obs, type, data)
Silent                             == sent' = NoSent

\* The bookkeeping variables, which most steps leave alone.
log == <<issued, acked, failed>>

\* uuid.New(): a fresh random id.  The k-th id minted by connection c's handler
\* is written <<c, k>>; no two calls return the same id.
NewUUID(c) == <<c, uuids[c] + 1>>
Minted(c)  == uuids' = [uuids EXCEPT ![c] = @ + 1]

\* ------------------------------------------------------ connection lifecycle
db == <<nutritional_info, nutrition_scans, scanResult>>

\* Connections are numbered in the order their handlers start.
Accepting(c) == pc[c] = "new" /\ \A b \in 1..(c - 1) : pc[b] # "new"

\* handleWebSocket up to its loop: upgrade, then register under a fresh id.
Upgrade(c) ==
    /\ Accepting(c)
    /\ Minted(c)
    /\ clients' = clients \cup {[id |-> NewUUID(c), conn |-> c]}
    /\ pc' = [pc EXCEPT ![c] = "read"]
    /\ Silent
    /\ UNCHANGED <<alive, msgs, loc, log, tempImageData, db, clock>>

\* The upgrade fails: the handler returns without registering.
UpgradeFail(c) ==
    /\ Accepting(c)
    /\ pc' = [pc EXCEPT ![c] = "done"]
    /\ Silent
    /\ UNCHANGED <<alive, msgs, loc, log, clients, tempImageData, db, uuids, clock>>

\* The client closes its end, or the network drops the connection, while the
\* handler is busy with a message.  (A close while the handler waits in
\* ReadMessage is ReadFail.)
PeerClose(c) ==
    /\ pc[c] \notin {"new", "read", "done"}
    /\ alive[c]
    /\ alive' = [alive EXCEPT ![c] = FALSE]
    /\ Silent
    /\ UNCHANGED <<pc, msgs, loc, log, clients, tempImageData, db, uuids, clock>>

\* A handler that on leaving its loop also drops the pending entries it made.
ReadFailCleaning(c) ==
    /\ pc[c] = "read"
    /\ alive' = [alive EXCEPT ![c] = FALSE]
    /\ clients' = {e \in clients : e.conn # c}
    /\ tempImageData' = [id \in {x \in DOMAIN tempImageData : x[1] # c} |->
                            tempImageData[id]]
    /\ pc' = [pc EXCEPT ![c] = "done"]
    /\ Silent
    /\ UNCHANGED <<msgs, loc, log, db, uuids, clock>>

\* A handler without the deferred Delete of its registry entry.
ReadFailNoDeregister(c) ==
    /\ pc[c] = "read"
    /\ alive' = [alive EXCEPT ![c] = FALSE]
    /\ pc' = [pc EXCEPT ![c] = "done"]
    /\ Silent
    /\ UNCHANGED <<msgs, loc, log, clients, tempImageData, db, uuids, clock>>

\* ReadMessage fails, the connection being closed by then or closing during
\* the wait: leave the loop, run the deferred Delete and Close.
ReadFail(c) ==
    /\ pc[c] = "read"
    /\ alive' = [alive EXCEPT ![c] = FALSE]
    /\ clients' = {e \in clients : e.conn # c}
    /\ pc' = [pc EXCEPT ![c] = "done"]
    /\ Silent
    /\ UNCHANGED <<msgs, loc, log, tempImageData, db, uuids, clock>>

\* A read loop that hands each message to a goroutine of its own and reads on.
CanReadAnytime(c) == pc[c] \notin {"new", "done"} /\ alive[c] /\ msgs < MaxMsgs

\* A server that handles one message at a time over all connections.
CanReadExclusive(c) ==
    /\ pc[c] = "read" /\ alive[c] /\ msgs < MaxMsgs
    /\ \A b \in Conns : pc[b] \in {"new", "read", "done"}

\* ReadMessage returns a message.
CanRead(c) == pc[c] = "read" /\ alive[c] /\ msgs < MaxMsgs
Read       == msgs' = msgs + 1

\* A frame that is no JSON object: logged, no reply, next read.
RecvUnparsable(c) ==
    /\ CanRead(c)
    /\ Read
    /\ Silent
    /\ UNCHANGED <<pc, alive, loc, log, clients, tempImageData, db, uuids, clock>>

\* handleWebSocketMessage: the type is missing or no string.
RecvInvalidType(c) ==
    /\ CanRead(c)
    /\ Read
    /\ \E t \in {Absent, JNum(1)} :
          sendError(c, [type |-> t], NoObs, "Invalid message format")
    /\ UNCHANGED <<pc, alive, loc, log, clients, tempImageData, db, uuids, clock>>

\* A default case that gives up the connection after its error.
RecvUnknownTypeClosing(c) ==
    /\ CanRead(c)
    /\ Read
    /\ sendError(c, [type |-> JStr("ping")], NoObs, "Unknown message type")
    /\ pc' = [pc EXCEPT ![c] = "done"]
    /\ clients' = {e \in clients : e.conn # c}
    /\ UNCHANGED <<alive, loc, log, tempImageData, db, uuids, clock>>

\* handleWebSocketMessage: the default case of the switch.
RecvUnknownType(c) ==
    /\ CanRead(c)
    /\ Read
    /\ sendError(c, [type |-> JStr("ping")], NoObs, "Unknown message type")
    /\ UNCHANGED <<pc, alive, loc, log, clients, tempImageData, db, uuids, clock>>

Tick ==
    /\ clock < MaxClock
    /\ clock' = clock + 1
    /\ Silent
    /\ UNCHANGED <<pc, alive, msgs, loc, log, clients, tempImageData, db, uuids>>

\* --------------------------------------------------------------- handleScan
\* handleScan dropping the client's weight.
ScanInfoNoWeight(draft, totalWeight, id, now) ==
    [draft EXCEPT !.ID = id, !.CreatedAt = now, !.UpdatedAt = now]

\* handleScan keeping the id the Analyzer put into its draft.
ScanInfoKeepID(draft, totalWeight, id, now) ==
    [draft EXCEPT !.TotalWeight = totalWeight, !.CreatedAt = now, !.UpdatedAt = now]

\* The record handleScan completes from the Analyzer's draft.
ScanInfo(draft, totalWeight, id, now) ==
    [draft EXCEPT !.TotalWeight = totalWeight, !.ID = id, !.CreatedAt = now,
                  !.UpdatedAt = now]

\* Dispatch of a scan message and handleScan's validation, up to the call of
\* ProcessImage.
HandleScanValidate(c) ==
    /\ CanRead(c)
    /\ Read
    /\ \E d \in ScanData(c) :
        LET m == [type |-> JStr("scan"), data |-> d]
            reject(text) == /\ sendError(c, m, NoObs, text)
                            /\ UNCHANGED <<pc, loc>>
        IN  IF ~IsStr(d.image) THEN reject("Invalid image data")
            ELSE IF ~IsNum(d.totalWeight) THEN reject("Invalid weight value")
            ELSE IF Base64Decode(d.image.v) = DecodeError THEN reject("Invalid image format")
            ELSE /\ loc' = [loc EXCEPT ![c] = [IdleLoc EXCEPT !.msg = m,
                                     !.imageData = Base64Decode(d.image.v)]]
                 /\ pc' = [pc EXCEPT ![c] = "analyzing"]
                 /\ Silent
    /\ UNCHANGED <<alive, log, clients, tempImageData, db, uuids, clock>>

\* A handleScan that stores the image before it looks at ProcessImage's error.
HandleScanFailStoring(c) ==
    /\ pc[c] = "analyzing"
    /\ \E e \in AnalyzerErrors :
          sendError(c, loc[c].msg, [NoObs EXCEPT !.analyzer = "err", !.err = e],
                    "Failed to process image")
    /\ tempImageData' = Put(tempImageData, NewUUID(c), loc[c].imageData)
    /\ Minted(c)
    /\ pc' = [pc EXCEPT ![c] = "read"]
    /\ loc' = [loc EXCEPT ![c] = IdleLoc]
    /\ UNCHANGED <<alive, msgs, log, clients, db, clock>>

\* A handleScan whose handler goroutine ends when ProcessImage fails.
HandleScanFailClosing(c) ==
    /\ pc[c] = "analyzing"
    /\ \E e \in AnalyzerErrors :
          sendError(c, loc[c].msg, [NoObs EXCEPT !.analyzer = "err", !.err = e],
                    "Failed to process image")
    /\ pc' = [pc EXCEPT ![c] = "done"]
    /\ clients' = {e \in clients : e.conn # c}
    /\ loc' = [loc EXCEPT ![c] = IdleLoc]
    /\ UNCHANGED <<alive, msgs, log, tempImageData, db, uuids, clock>>

\* A handleScan that passes ProcessImage's error text on to the client.
HandleScanFailLeaking(c) ==
    /\ pc[c] = "analyzing"
    /\ \E e \in AnalyzerErrors :
          sendError(c, loc[c].msg, [NoObs EXCEPT !.analyzer = "err", !.err = e], e)
    /\ pc' = [pc EXCEPT ![c] = "read"]
    /\ loc' = [loc EXCEPT ![c] = IdleLoc]
    /\ UNCHANGED <<alive, msgs, log, clients, tempImageData, db, uuids, clock>>

\* A handleScan that only logs ProcessImage's error.
HandleScanFailSilent(c) ==
    /\ pc[c] = "analyzing"
    /\ Silent
    /\ pc' = [pc EXCEPT ![c] = "read"]
    /\ loc' = [loc EXCEPT ![c] = IdleLoc]
    /\ UNCHANGED <<alive, msgs, log, clients, tempImageData, db, uuids, clock>>

\* ProcessImage returns an error.
HandleScanFail(c) ==
    /\ pc[c] = "analyzing"
    /\ \E e \in AnalyzerErrors :
          sendError(c, loc[c].msg, [NoObs EXCEPT !.analyzer = "err", !.err = e],
                    "Failed to process image")
    /\ pc' = [pc EXCEPT ![c] = "read"]
    /\ loc' = [loc EXCEPT ![c] = IdleLoc]
    /\ UNCHANGED <<alive, msgs, log, clients, tempImageData, db, uuids, clock>>

\* A handleScan without the Store.
HandleScanNoStore(c) ==
    /\ pc[c] = "analyzing"
    /\ \E d \in Drafts :
        LET info == ScanInfo(d, loc[c].msg.data.totalWeight.v, NewUUID(c), clock)
        IN  loc' = [loc EXCEPT ![c].info = info,
                               ![c].obs = [NoObs EXCEPT !.analyzer = "ok", !.draft = d]]
    /\ Minted(c)
    /\ pc' = [pc EXCEPT ![c] = "send_result"]
    /\ Silent
    /\ UNCHANGED <<alive, msgs, log, clients, tempImageData, db, clock>>

\* ProcessImage returns a draft: complete it, mint the id, Store the image.
HandleScanStore(c) ==
    /\ pc[c] = "analyzing"
    /\ \E d \in Drafts :
        LET info == ScanInfo(d, loc[c].msg.data.totalWeight.v, NewUUID(c), clock)
        IN  /\ loc' = [loc EXCEPT ![c].info = info,
                                  ![c].obs = [NoObs EXCEPT !.analyzer = "ok", !.draft = d]]
            /\ tempImageData' = Put(tempImageData, info.ID, loc[c].imageData)
    /\ Minted(c)
    /\ pc' = [pc EXCEPT ![c] = "send_result"]
    /\ Silent
    /\ UNCHANGED <<alive, msgs, log, clients, db, clock>>

\* A handleScan whose handler gives up when the write of the result fails.
HandleScanSendFatal(c) ==
    /\ pc[c] = "send_result"
    /\ sendMessage(c, loc[c].msg, loc[c].obs, "scan_result", ToJSON(loc[c].info))
    /\ issued' = issued \cup {[data |-> ToJSON(loc[c].info), req |-> loc[c].msg,
                               conn |-> c, delivered |-> alive[c]]}
    /\ pc' = [pc EXCEPT ![c] = IF alive[c] THEN "read" ELSE "done"]
    /\ loc' = [loc EXCEPT ![c] = IdleLoc]
    /\ UNCHANGED <<alive, msgs, acked, failed, clients, tempImageData, db, uuids, clock>>

\* The scan_result that ends handleScan.
HandleScanSend(c) ==
    /\ pc[c] = "send_result"
    /\ sendMessage(c, loc[c].msg, loc[c].obs, "scan_result", ToJSON(loc[c].info))
    /\ issued' = issued \cup {[data |-> ToJSON(loc[c].info), req |-> loc[c].msg,
                               conn |-> c, delivered |-> alive[c]]}
    /\ pc' = [pc EXCEPT ![c] = "read"]
    /\ loc' = [loc EXCEPT ![c] = IdleLoc]
    /\ UNCHANGED <<alive, msgs, acked, failed, clients, tempImageData, db, uuids, clock>>

\* -------------------------------------------------------- handleConfirmScan
\* A numeric field that is never read from the message.
NumOrDefault(x, default) == default

\* A numeric field whose default is always 0.
NumOrZero(x, default) == IF IsNum(x) THEN x.v ELSE 0

\* A numeric field read with its default.
NumOr(x, default) == IF IsNum(x) THEN x.v ELSE default
DefaultWeight == 100

\* The record handleConfirmScan builds from the message.
ConfirmInfo(d, now) ==
    [ID |-> d.id.v,
     TotalWeight |-> NumOr(d.total_weight, DefaultWeight),
     Calories |-> NumOr(d.calories, 0), Protein |-> NumOr(d.protein, 0),
     Carbs |-> NumOr(d.carbs, 0), Fat |-> NumOr(d.fat, 0),
     Fiber |-> NumOr(d.fiber, 0), Sugar |-> NumOr(d.sugar, 0),
     ImagePath |-> "", CreatedAt |-> now, UpdatedAt |-> now]

\* tempImageData.Load(id): the value and whether the key is present.
LoadAny(store, id) ==
    [value |-> IF id \in DOMAIN store THEN store[id] ELSE <<>>, ok |-> TRUE]

Load(store, id) ==
    IF id \in DOMAIN store THEN [value |-> store[id], ok |-> TRUE]
    ELSE [value |-> <<>>, ok |-> FALSE]

\* A handleConfirmScan without its Delete.
Kept(store, id) == store

\* tempImageData after handleConfirmScan's Delete.
Cleaned(store, id) == Remove(store, id)

\* A handleConfirmScan that takes only the ids its own handler minted.
HandleConfirmLoadOwn(c) ==
    /\ CanRead(c)
    /\ Read
    /\ \E d \in ConfirmData :
        LET m == [type |-> JStr("confirm_scan"), data |-> d]
            reject(text) == /\ sendError(c, m, NoObs, text)
                            /\ UNCHANGED <<pc, loc>>
        IN  IF d.id.t = "nil" THEN reject("Missing nutrition info ID")
            ELSE IF ~IsStr(d.id) THEN reject("Invalid nutrition info ID format")
            ELSE IF ~Load(tempImageData, d.id.v).ok \/ d.id.v[1] # c
                 THEN reject("Image data not found")
            ELSE /\ loc' = [loc EXCEPT ![c] = [IdleLoc EXCEPT !.msg = m,
                                     !.imageData = Load(tempImageData, d.id.v).value]]
                 /\ pc' = [pc EXCEPT ![c] = "confirm_loaded"]
                 /\ Silent
    /\ UNCHANGED <<alive, log, clients, tempImageData, db, uuids, clock>>

\* Dispatch of a confirm_scan message, the id checks and the Load.
HandleConfirmLoad(c) ==
    /\ CanRead(c)
    /\ Read
    /\ \E d \in ConfirmData :
        LET m == [type |-> JStr("confirm_scan"), data |-> d]
            reject(text) == /\ sendError(c, m, NoObs, text)
                            /\ UNCHANGED <<pc, loc>>
        IN  IF d.id.t = "nil" THEN reject("Missing nutrition info ID")
            ELSE IF ~IsStr(d.id) THEN reject("Invalid nutrition info ID format")
            ELSE IF ~Load(tempImageData, d.id.v).ok THEN reject("Image data not found")
            ELSE /\ loc' = [loc EXCEPT ![c] = [IdleLoc EXCEPT !.msg = m,
                                     !.imageData = Load(tempImageData, d.id.v).value]]
                 /\ pc' = [pc EXCEPT ![c] = "confirm_loaded"]
                 /\ Silent
    /\ UNCHANGED <<alive, log, clients, tempImageData, db, uuids, clock>>

\* The Delete, then the numeric fields and the record (local code).
HandleConfirmDelete(c) ==
    /\ pc[c] = "confirm_loaded"
    /\ tempImageData' = Cleaned(tempImageData, loc[c].msg.data.id.v)
    /\ loc' = [loc EXCEPT ![c].info = ConfirmInfo(loc[c].msg.data, clock)]
    /\ pc' = [pc EXCEPT ![c] = "confirm_save_info"]
    /\ Silent
    /\ UNCHANGED <<alive, msgs, log, clients, db, uuids, clock>>

\* A time.Time as the driver writes it into a TEXT column: the instant, in a
\* text layout that is the driver's choice (see ParseRFC3339).
TimeText(t) == [t |-> t]

\* SQLiteDB.SaveNutritionalInfo: upsert on id; a conflict keeps created_at.
SaveNutritionalInfo(table, info, now) ==
    LET row == [total_weight |-> info.TotalWeight, calories |-> info.Calories,
                protein |-> info.Protein, carbs |-> info.Carbs, fat |-> info.Fat,
                fiber |-> info.Fiber, sugar |-> info.Sugar,
                image_path |-> info.ImagePath,
                created_at |-> TimeText(IF info.CreatedAt = ZeroTime THEN now
                                        ELSE info.CreatedAt),
                updated_at |-> TimeText(now)]
    IN  IF info.ID \in DOMAIN table
        THEN Put(table, info.ID, [row EXCEPT !.created_at = table[info.ID].created_at])
        ELSE Put(table, info.ID, row)

\* A scan record left in its initial status.
ScanRecordPending(id, imageData, info, now) ==
    [ID |-> id, ImageData |-> imageData, Status |-> "pending", Result |-> info.ID,
     Error |-> "", CreatedAt |-> now, UpdatedAt |-> now]

\* A scan record saved under the id of its NutritionalInfo.
ScanRecordSameID(id, imageData, info, now) ==
    [ID |-> info.ID, ImageData |-> imageData, Status |-> "completed", Result |-> info.ID,
     Error |-> "", CreatedAt |-> now, UpdatedAt |-> now]

\* The models.NutritionScan handleConfirmScan builds.
ScanRecord(id, imageData, info, now) ==
    [ID |-> id, ImageData |-> imageData, Status |-> "completed", Result |-> info.ID,
     Error |-> "", CreatedAt |-> now, UpdatedAt |-> now]

\* SQLiteDB.SaveScan: INSERT OR REPLACE; the Result is not a column.
SaveScan(table, scan, now) ==
    Put(table, scan.ID,
        [image_data |-> scan.ImageData, status |-> scan.Status, error |-> scan.Error,
         created_at |-> TimeText(IF scan.CreatedAt = ZeroTime THEN now ELSE scan.CreatedAt),
         updated_at |-> TimeText(now)])

\* The call of SaveNutritionalInfo and the handling of its error.
HandleConfirmSaveInfo(c) ==
    /\ pc[c] = "confirm_save_info"
    /\ \/ /\ nutritional_info' = SaveNutritionalInfo(nutritional_info, loc[c].info, clock)
          /\ loc' = [loc EXCEPT ![c].obs.saveInfo = "ok"]
          /\ pc' = [pc EXCEPT ![c] = "confirm_save_scan"]
          /\ Silent
          /\ UNCHANGED <<failed>>
       \/ /\ sendError(c, loc[c].msg, [loc[c].obs EXCEPT !.saveInfo = "err"],
                       "Failed to save results")
          /\ failed' = failed \cup {loc[c].info.ID}
          /\ loc' = [loc EXCEPT ![c] = IdleLoc]
          /\ pc' = [pc EXCEPT ![c] = "read"]
          /\ UNCHANGED nutritional_info
    /\ UNCHANGED <<alive, msgs, issued, acked, clients, tempImageData, nutrition_scans,
                   scanResult, uuids, clock>>

\* The scan record, the call of SaveScan and the final reply.
HandleConfirmSaveScan(c) ==
    /\ pc[c] = "confirm_save_scan"
    /\ Minted(c)
    /\ LET scan == ScanRecord(NewUUID(c), loc[c].imageData, loc[c].info, clock)
           id   == loc[c].info.ID
       IN  \/ /\ nutrition_scans' = SaveScan(nutrition_scans, scan, clock)
              /\ scanResult' = Put(scanResult, scan.ID, scan.Result)
              /\ sendMessage(c, loc[c].msg, [loc[c].obs EXCEPT !.saveScan = "ok"],
                             "scan_saved", "null")
              /\ acked' = Put(acked, id, IF id \in DOMAIN acked THEN acked[id] + 1 ELSE 1)
              /\ UNCHANGED failed
           \/ /\ sendError(c, loc[c].msg, [loc[c].obs EXCEPT !.saveScan = "err"],
                           "Failed to save scan")
              /\ failed' = failed \cup {id}
              /\ UNCHANGED <<nutrition_scans, scanResult, acked>>
    /\ loc' = [loc EXCEPT ![c] = IdleLoc]
    /\ pc' = [pc EXCEPT ![c] = "read"]
    /\ UNCHANGED <<alive, msgs, issued, clients, tempImageData, nutritional_info, clock>>

\* --------------------------------------------------------- handleGetHistory
HistoryLimit == 20

\* time.Parse(time.RFC3339, text), its error dropped: the zero time unless
\* the text has that layout.  The layout of the stored text is the SQL
\* driver's, which is not part of this repository: either outcome can occur.
Layouts == {"RFC3339", "String"}
ParseRFC3339(text, layout) == IF layout = "RFC3339" THEN text.t ELSE ZeroTime

\* One row of nutritional_info as GetRecentNutritionalInfo scans it.
RowInfo(id, layout) ==
    LET r == nutritional_info[id]
    IN  [ID |-> id, TotalWeight |-> r.total_weight, Calories |-> r.calories,
         Protein |-> r.protein, Carbs |-> r.carbs, Fat |-> r.fat, Fiber |-> r.fiber,
         Sugar |-> r.sugar, ImagePath |-> r.image_path,
         CreatedAt |-> ParseRFC3339(r.created_at, layout),
         UpdatedAt |-> ParseRFC3339(r.updated_at, layout)]

Min(a, b) == IF a < b THEN a ELSE b

\* The same query ordered by created_at ascending.
RECURSIVE OrderByCreatedAtAsc(_, _)
OrderByCreatedAtAsc(ids, limit) ==
    IF limit = 0 \/ ids = {} THEN {<<>>}
    ELSE LET at(id) == nutritional_info[id].created_at.t
             oldest == {x \in ids : \A y \in ids : at(x) <= at(y)}
         IN  UNION {{<<id>> \o rest : rest \in OrderByCreatedAtAsc(ids \ {id}, limit - 1)} :
                       id \in oldest}

\* ORDER BY created_at DESC LIMIT limit over the given rows: the newest row
\* first, then the same over the rest; rows of one instant come in any order,
\* so the result is a set of possible id sequences.
RECURSIVE OrderByCreatedAtDesc(_, _)
OrderByCreatedAtDesc(ids, limit) ==
    IF limit = 0 \/ ids = {} THEN {<<>>}
    ELSE LET at(id) == nutritional_info[id].created_at.t
             newest == {x \in ids : \A y \in ids : at(x) >= at(y)}
         IN  UNION {{<<id>> \o rest : rest \in OrderByCreatedAtDesc(ids \ {id}, limit - 1)} :
                       id \in newest}

\* The results GetRecentNutritionalInfo(limit) can return.
GetRecentNutritionalInfo(limit, layout) ==
    {[i \in 1..Len(s) |-> RowInfo(s[i], layout)] :
        s \in OrderByCreatedAtDesc(DOMAIN nutritional_info, limit)}

\* Local midnight of now, and midnight of the Sunday on or before it.  Day 0 of
\* the clock is a Sunday.
StartOfDay(now)  == now - (now % DayLen)
Weekday(now)     == (now \div DayLen) % 7
\* A start of week with the weekday added instead of subtracted.
StartOfWeekAhead(now) == StartOfDay(now + Weekday(now) * DayLen)
StartOfWeek(now) == StartOfDay(now - Weekday(now) * DayLen)

NoTotal == [calories |-> 0, protein |-> 0, carbs |-> 0, fat |-> 0]
AddTo(total, info) ==
    [calories |-> total.calories + info.Calories, protein |-> total.protein + info.Protein,
     carbs |-> total.carbs + info.Carbs, fat |-> total.fat + info.Fat]

\* A week total that also takes the records of the week's first instant.
RECURSIVE WeekTotalInclusive(_, _)
WeekTotalInclusive(items, now) ==
    IF items = <<>> THEN NoTotal
    ELSE LET rest == WeekTotalInclusive(Tail(items), now)
         IN  IF Head(items).CreatedAt >= StartOfWeek(now) THEN AddTo(rest, Head(items))
             ELSE rest

\* A week total that stops at the first record not of this week.
RECURSIVE WeekTotalBreak(_, _)
WeekTotalBreak(items, now) ==
    IF items = <<>> THEN NoTotal
    ELSE IF Head(items).CreatedAt > StartOfWeek(now)
         THEN AddTo(WeekTotalBreak(Tail(items), now), Head(items))
         ELSE NoTotal

RECURSIVE WeekTotal(_, _)
WeekTotal(items, now) ==
    IF items = <<>> THEN NoTotal
    ELSE LET rest == WeekTotal(Tail(items), now)
         IN  IF Head(items).CreatedAt > StartOfWeek(now) THEN AddTo(rest, Head(items))
             ELSE rest

RECURSIVE DayTotal(_, _)
DayTotal(items, now) ==
    IF items = <<>> THEN NoTotal
    ELSE LET rest == DayTotal(Tail(items), now)
         IN  IF /\ Head(items).CreatedAt > StartOfWeek(now)
                /\ Head(items).CreatedAt > StartOfDay(now)
             THEN AddTo(rest, Head(items))
             ELSE rest

\* A history whose totals are taken over every persisted row, listed or not.
RECURSIVE TotalOfRows(_, _)
TotalOfRows(ids, start) ==
    IF ids = {} THEN NoTotal
    ELSE LET id   == CHOOSE x \in ids : TRUE
             r    == nutritional_info[id]
             rest == TotalOfRows(ids \ {id}, start)
         IN  IF r.created_at.t > start
             THEN [calories |-> rest.calories + r.calories,
                   protein |-> rest.protein + r.protein,
                   carbs |-> rest.carbs + r.carbs, fat |-> rest.fat + r.fat]
             ELSE rest
HistoryOverAll(items, now) ==
    LET parsed == \E i \in DOMAIN items : items[i].CreatedAt # ZeroTime
    IN  [items |-> [i \in 1..Len(items) |-> ToJSON(items[i])],
         day_total |-> IF parsed THEN TotalOfRows(DOMAIN nutritional_info, StartOfDay(now))
                       ELSE NoTotal,
         week_total |-> IF parsed THEN TotalOfRows(DOMAIN nutritional_info, StartOfWeek(now))
                        ELSE NoTotal]

History(items, now) ==
    [items |-> [i \in 1..Len(items) |-> ToJSON(items[i])],
     day_total |-> DayTotal(items, now), week_total |-> WeekTotal(items, now)]

\* A handleGetHistory that also clears the pending store.
HandleGetHistoryClearing(c) ==
    /\ CanRead(c)
    /\ Read
    /\ LET m == [type |-> JStr("get_history")]
       IN  \/ \E layout \in Layouts :
              \E items \in GetRecentNutritionalInfo(HistoryLimit, layout) :
                 sendMessage(c, m, NoObs, "history", History(items, clock))
           \/ sendError(c, m, NoObs, "Failed to retrieve history")
    /\ tempImageData' = EmptyMap
    /\ UNCHANGED <<pc, alive, loc, log, clients, db, uuids, clock>>

HandleGetHistory(c) ==
    /\ CanRead(c)
    /\ Read
    /\ LET m == [type |-> JStr("get_history")]
       IN  \/ \E layout \in Layouts :
              \E items \in GetRecentNutritionalInfo(HistoryLimit, layout) :
                 sendMessage(c, m, NoObs, "history", History(items, clock))
           \/ sendError(c, m, NoObs, "Failed to retrieve history")
    /\ UNCHANGED <<pc, alive, loc, log, clients, tempImageData, db, uuids, clock>>

\* ------------------------------------------------------------ specification
Next ==
    \/ \E c \in Conns :
          \/ Upgrade(c)
          \/ UpgradeFail(c)
          \/ PeerClose(c)
          \/ ReadFail(c)
          \/ RecvUnparsable(c)
          \/ RecvInvalidType(c)
          \/ RecvUnknownType(c)
          \/ HandleScanValidate(c)
          \/ HandleScanFail(c)
          \/ HandleScanStore(c)
          \/ HandleScanSend(c)
          \/ HandleConfirmLoad(c)
          \/ HandleConfirmDelete(c)
          \/ HandleConfirmSaveInfo(c)
          \/ HandleConfirmSaveScan(c)
          \/ HandleGetHistory(c)

Spec == Init /\ [][Next]_vars

\* The same with the wall clock advancing.
TimedSpec == Init /\ [][Next \/ Tick]_vars

\* ------------------------------------------------- history of an old database
\* The server started on a database file that earlier runs have filled: the
\* rows are those SaveNutritionalInfo wrote for confirmed scans.  A short
\* table has up to MaxRows rows at instants from one before the start of the
\* current week up to now; a long table has one row more than the history
\* query takes, one per instant back from now, the two oldest at one instant.
\* Now lies in the first two days of a week.
OldIds      == {<<0, k + 1>> : k \in 1..MaxRows}
HistNows    == (14 * DayLen)..(16 * DayLen - 1)
OldTimes(now) == (14 * DayLen - 1)..now
OldFields(id, t) ==
    {Edited} \cup {Echo(ToJSON(ScanInfo(d, 250, id, t))) : d \in Drafts}
OldRow(id, f, t) ==
    SaveNutritionalInfo(EmptyMap, ConfirmInfo(WithID(JStr(id), f), t), t)[id]
LongTables(now) ==
    {[id \in {<<0, k + 1>> : k \in 1..(HistoryLimit + 1)} |->
         OldRow(<<0, 0>>, f, now - Min(id[2] - 2, HistoryLimit - 1))] :
        f \in OldFields(<<0, 0>>, now)}
\* The last instant of that week, and the tables of one row more than the
\* history query takes, all of that week: the sixteen newest two to an
\* instant, the five oldest one to an instant.
WeekEnd == 21 * DayLen - 1
FullWeekTables(now) ==
    {[id \in {<<0, k + 1>> : k \in 1..(HistoryLimit + 1)} |->
         OldRow(<<0, 0>>, f,
                now - (IF id[2] <= 17 THEN (id[2] - 2) \div 2 ELSE id[2] - 10))] :
        f \in OldFields(<<0, 0>>, now)}
OldTables(now) ==
    LongTables(now) \cup
    UNION {[{<<0, k + 1>> : k \in 1..n} ->
               UNION {{OldRow(<<0, 0>>, f, t) : f \in OldFields(<<0, 0>>, t)} :
                         t \in OldTimes(now)}] : n \in 0..MaxRows}

HistInit ==
    /\ pc = [c \in Conns |-> "new"]
    /\ alive = [c \in Conns |-> TRUE]
    /\ msgs = 0
    /\ loc = [c \in Conns |-> IdleLoc]
    /\ sent = NoSent
    /\ issued = {}
    /\ acked = EmptyMap
    /\ failed = {}
    /\ clients = {}
    /\ tempImageData = EmptyMap
    /\ \/ clock \in HistNows /\ nutritional_info \in OldTables(clock)
       \/ clock = WeekEnd /\ nutritional_info \in FullWeekTables(clock)
    /\ nutrition_scans = EmptyMap
    /\ scanResult = EmptyMap
    /\ uuids = [c \in Conns |-> 0]

\* One client connects and asks for the history, once.
HistNext ==
    \/ Upgrade(1)
    \/ msgs = 0 /\ HandleGetHistory(1)

HistorySpec == HistInit /\ [][HistNext]_vars

\* --------------------------------------------------------------- properties
\* The ids carried by the scan_result messages written so far, the ones that
\* reached a client, and the scan_result messages that carried a given id.
IssuedIds     == {r.data.id : r \in issued}
CarriedIds    == {r.id : r \in ScanResults}
IssuedFor(id) == {r \in issued : r.data.id = id}

TypeIs(m, type) == m.type.t = "str" /\ m.type.v = type

\* The steps in which connection c's handler reads a message of the given
\* type: it either takes the message up (Accepts) or answers it at once and
\* goes back to reading (Answers).  MsgRead is the message.
Accepts(c, type) ==
    pc[c] = "read" /\ pc'[c] \notin {"read", "done"} /\ TypeIs(loc'[c].msg, type)
Answers(c, type) ==
    msgs' = msgs + 1 /\ pc'[c] = "read" /\ sent'.conn = c /\ TypeIs(sent'.req, type)
ReadsMsg(c, type) == Accepts(c, type) \/ Answers(c, type)
MsgRead(c)        == IF pc'[c] = "read" THEN sent'.req ELSE loc'[c].msg

NutrientsOfJSON(j) == <<j.calories, j.protein, j.carbs, j.fat, j.fiber, j.sugar>>
NutrientsOfInfo(i) == <<i.Calories, i.Protein, i.Carbs, i.Fat, i.Fiber, i.Sugar>>
NutrientsOfRow(r)  == <<r.calories, r.protein, r.carbs, r.fat, r.fiber, r.sugar>>

\* C1: of the confirm_scan messages naming one pending id, whatever their
\* interleaving and connections, at most one is answered scan_saved.
C1_AtMostOneSaved == \A id \in DOMAIN acked : acked[id] <= 1

\* C2: a confirm_scan whose id no earlier scan_result carried to a client is
\* answered with an error in the step that reads it, and a scan_saved always
\* answers a confirm_scan whose id a scan_result carried.
C2_UnknownIdRejected ==
    [][\A c \in Conns :
          /\ (/\ ReadsMsg(c, "confirm_scan")
              /\ IsStr(MsgRead(c).data.id)
              /\ MsgRead(c).data.id.v \notin CarriedIds)
             => Answers(c, "confirm_scan") /\ sent'.type = "error"
          /\ (sent'.conn = c /\ sent'.type = "scan_saved")
             => sent'.req.data.id.v \in CarriedIds]_vars

\* An unknown id is refused while other ids are pending.
C2_Witness ==
    /\ sent.type = "error"
    /\ TypeIs(sent.req, "confirm_scan")
    /\ IsStr(sent.req.data.id)
    /\ sent.req.data.id.v \notin CarriedIds
    /\ sent.message = "Image data not found"
    /\ DOMAIN tempImageData # {}

\* The ids handleScan minted after a successful analysis, and the ids a
\* confirm_scan has consumed (its Delete has run).
AnalyzedIds ==
    IssuedIds \cup {loc[c].info.ID : c \in {x \in Conns : pc[x] = "send_result"}}
ConsumedIds ==
    DOMAIN acked \cup failed
    \cup {loc[c].msg.data.id.v :
             c \in {x \in Conns : pc[x] \in {"confirm_save_info", "confirm_save_scan"}}}

\* C3: the keys of the pending store are exactly the ids minted after a
\* successful analysis that no confirm_scan has consumed, and the store
\* changes only in the step that stores an analysed scan and in the step that
\* deletes a confirmed one.
C3_PendingStoreExact ==
    /\ [](DOMAIN tempImageData = AnalyzedIds \ ConsumedIds)
    /\ [][tempImageData' # tempImageData =>
            \E c \in Conns :
               \/ pc[c] = "analyzing" /\ pc'[c] = "send_result"
               \/ pc[c] = "confirm_loaded" /\ pc'[c] = "confirm_save_info"]_vars

\* One id consumed and gone while another is still pending.
C3_Witness ==
    /\ \E id \in ConsumedIds : id \notin DOMAIN tempImageData
    /\ DOMAIN tempImageData # {}

\* C4: a scan with a decodable image and a positive weight is taken up
\* without a reply; when the Analyzer succeeds the handler still writes
\* nothing; and its last step writes one scan_result whose total weight is the
\* submitted one and whose six nutrients are the Analyzer's draft.
C4_ScanResultFromDraft ==
    [][\A c \in Conns :
          /\ (/\ ReadsMsg(c, "scan")
              /\ IsStr(MsgRead(c).data.image)
              /\ IsNum(MsgRead(c).data.totalWeight)
              /\ Base64Decode(MsgRead(c).data.image.v) # DecodeError
              /\ MsgRead(c).data.totalWeight.v > 0)
             => pc'[c] = "analyzing" /\ sent' = NoSent
          /\ (/\ pc[c] = "analyzing"
              /\ loc'[c].obs.analyzer = "ok"
              /\ loc[c].msg.data.totalWeight.v > 0)
             => pc'[c] = "send_result" /\ sent' = NoSent
          /\ (/\ pc[c] = "send_result"
              /\ pc'[c] # "send_result"
              /\ loc[c].msg.data.totalWeight.v > 0)
             => /\ pc'[c] = "read"
                /\ sent'.conn = c
                /\ sent'.type = "scan_result"
                /\ sent'.req = loc[c].msg
                /\ sent'.data.total_weight = loc[c].msg.data.totalWeight.v
                /\ NutrientsOfJSON(sent'.data) = NutrientsOfInfo(loc[c].obs.draft)]_vars

\* A scan_result for a positive weight has reached its client.
C4_Witness ==
    /\ sent.type = "scan_result"
    /\ sent.delivered
    /\ sent.req.data.totalWeight.v > 0
    /\ sent.data.total_weight = 250
    /\ NutrientsOfJSON(sent.data) \in {NutrientsOfInfo(d) : d \in Drafts}

\* C5: the id handleScan stores an image under is no key of the pending store
\* and was never issued, and the id of every scan_result differs from the id
\* of every scan_result written before it.
C5_FreshScanIds ==
    [][\A c \in Conns :
          /\ (pc[c] = "analyzing" /\ pc'[c] = "send_result")
             => loc'[c].info.ID \notin DOMAIN tempImageData \cup AnalyzedIds
          /\ (sent'.conn = c /\ sent'.type = "scan_result")
             => sent'.data.id \notin IssuedIds]_vars

\* Two scan_result messages have been written, and a third id is pending.
C5_Witness ==
    /\ \E r1, r2 \in issued : r1.data.id # r2.data.id
    /\ \E id \in DOMAIN tempImageData : id \notin IssuedIds

\* C6: reading a scan message leaves the pending store as it is, and when
\* ProcessImage fails the handler writes an error, returns without a
\* scan_result and leaves the pending store as it is.
C6_AnalyzerFailure ==
    [][\A c \in Conns :
          /\ ReadsMsg(c, "scan") => tempImageData' = tempImageData
          /\ (pc[c] = "analyzing" /\ pc'[c] = "read")
             => /\ sent'.conn = c
                /\ sent'.type = "error"
                /\ sent'.obs.analyzer = "err"
                /\ tempImageData' = tempImageData]_vars

\* The Analyzer has failed while an earlier scan is pending.
C6_Witness ==
    /\ sent.type = "error"
    /\ sent.obs.analyzer = "err"
    /\ sent.message = "Failed to process image"
    /\ DOMAIN tempImageData # {}

\* C7: an id whose confirm_scan met a failing save is no key of the pending
\* store from then on; the failing save is answered with an error; and a
\* confirm_scan read later for that id is answered "Image data not found".
C7_SaveFailureConsumes ==
    /\ [](failed \cap DOMAIN tempImageData = {})
    /\ [][\A c \in Conns :
             /\ (sent'.conn = c /\ "err" \in {sent'.obs.saveInfo, sent'.obs.saveScan})
                => sent'.type = "error" /\ sent'.req.data.id.v \in failed'
             /\ (/\ ReadsMsg(c, "confirm_scan")
                 /\ IsStr(MsgRead(c).data.id)
                 /\ MsgRead(c).data.id.v \in failed)
                => /\ Answers(c, "confirm_scan")
                   /\ sent'.type = "error"
                   /\ sent'.message = "Image data not found"]_vars

\* A second confirm_scan for an id whose first confirm failed to save.
C7_Witness ==
    /\ sent.type = "error"
    /\ TypeIs(sent.req, "confirm_scan")
    /\ IsStr(sent.req.data.id)
    /\ sent.req.data.id.v \in failed
    /\ sent.message = "Image data not found"

\* C8: no two persisted scan records embed the NutritionalInfo of one scan id.
C8_OneScanPerInfo ==
    \A s1, s2 \in DOMAIN scanResult : scanResult[s1] = scanResult[s2] => s1 = s2

\* C9: when scan_saved answers a confirm_scan for id X, nutritional_info has
\* a row X, and the scan record this handler minted is stored for X with
\* status "completed" and the bytes decoded from the image of the scan
\* message that produced X.
C9_SavedMeansPersisted ==
    (sent.type = "scan_saved") =>
        LET X == sent.req.data.id.v
            s == <<sent.conn, uuids[sent.conn]>>
        IN  /\ X \in DOMAIN nutritional_info
            /\ s \in DOMAIN nutrition_scans
            /\ scanResult[s] = X
            /\ nutrition_scans[s].status = "completed"
            /\ IssuedFor(X) # {}
            /\ \A r \in IssuedFor(X) :
                  nutrition_scans[s].image_data = Base64Decode(r.req.data.image.v)

\* A scan_saved has reached its client.
C9_Witness ==
    /\ sent.type = "scan_saved"
    /\ sent.delivered
    /\ nutrition_scans # EmptyMap

\* C10: when a confirm_scan echoes a scan_result R (its id, total weight and
\* six nutrients) and SaveNutritionalInfo succeeds, the row it writes has R's
\* total weight and R's six nutrients.
C10_RoundTrip ==
    [][\A c \in Conns :
          (pc[c] = "confirm_save_info" /\ pc'[c] = "confirm_save_scan") =>
             \A R \in ScanResults :
                (loc[c].msg.data = WithID(JStr(R.id), Echo(R))) =>
                   /\ R.id \in DOMAIN nutritional_info'
                   /\ nutritional_info'[R.id].total_weight = R.total_weight
                   /\ NutrientsOfRow(nutritional_info'[R.id]) = NutrientsOfJSON(R)]_vars

\* An echoed draft has been persisted with the draft's values.
C10_Witness ==
    \E R \in ScanResults :
       /\ R.id \in DOMAIN nutritional_info
       /\ nutritional_info[R.id].total_weight = R.total_weight
       /\ NutrientsOfRow(nutritional_info[R.id]) = NutrientsOfJSON(R)
       /\ R.total_weight # DefaultWeight
       /\ R.calories # 60

\* What a numeric field of a confirm_scan is to contribute: the number
\* supplied, or the stated default when it is missing or no number.
Supplied(x, default) == IF x.t = "num" THEN x.v ELSE default
Registered(c)        == \E e \in clients : e.conn = c

\* C11: a confirm_scan for a pending id is never rejected for its numeric
\* fields: after the Load hit the handler goes on to the saves without a
\* reply, the row SaveNutritionalInfo writes has, field by field, the number
\* supplied, 0 for a missing or wrong-typed macro and 100 for a missing or
\* wrong-typed total_weight, and scan_saved follows when SaveScan succeeds.
C11_FieldDefaults ==
    [][\A c \in Conns :
          /\ (pc[c] = "confirm_loaded" /\ pc'[c] # "confirm_loaded")
             => pc'[c] = "confirm_save_info" /\ sent' = NoSent
          /\ (pc[c] = "confirm_save_info" /\ pc'[c] = "confirm_save_scan")
             => LET d   == loc[c].msg.data
                    row == nutritional_info'[d.id.v]
                IN  /\ row.total_weight = Supplied(d.total_weight, 100)
                    /\ row.calories = Supplied(d.calories, 0)
                    /\ row.protein = Supplied(d.protein, 0)
                    /\ row.carbs = Supplied(d.carbs, 0)
                    /\ row.fat = Supplied(d.fat, 0)
                    /\ row.fiber = Supplied(d.fiber, 0)
                    /\ row.sugar = Supplied(d.sugar, 0)
          /\ (pc[c] = "confirm_save_scan" /\ sent'.conn = c /\ sent'.obs.saveScan = "ok")
             => sent'.type = "scan_saved"]_vars

\* A partial confirm_scan has been saved with its defaults and acknowledged.
C11_Witness ==
    /\ sent.type = "scan_saved"
    /\ sent.req.data.total_weight.t = "nil"
    /\ sent.req.data.protein.t = "str"
    /\ LET row == nutritional_info[sent.req.data.id.v]
       IN  row.total_weight = 100 /\ row.protein = 0 /\ row.calories = 60

KnownTypes == {"scan", "confirm_scan", "get_history"}

\* C12: a message whose type is a string other than scan, confirm_scan and
\* get_history is answered, in the step that reads it, with the single error
\* "Unknown message type", and the handler is then back at ReadMessage with
\* the connection open and registered, so that its next message is read.
C12_UnknownTypeKeepsOpen ==
    [][\A c \in Conns :
          (/\ msgs' = msgs + 1
           /\ sent'.conn = c
           /\ sent'.req.type.t = "str"
           /\ sent'.req.type.v \notin KnownTypes)
          => /\ sent'.type = "error"
             /\ sent'.message = "Unknown message type"
             /\ pc'[c] = "read"
             /\ alive'[c]
             /\ clients' = clients
             /\ \E e \in clients' : e.conn = c]_vars

\* The error for an unknown type has been delivered and the handler can read
\* a further message from the same connection.
C12_Witness ==
    /\ sent.type = "error"
    /\ sent.message = "Unknown message type"
    /\ sent.delivered
    /\ CanRead(sent.conn)
    /\ Registered(sent.conn)

\* C13: every step that reads a malformed envelope (no JSON object, or no
\* string type) writes an error, and the handler stays in its read loop.
C13_MalformedAnswered ==
    [][(/\ msgs' = msgs + 1
        /\ \A c \in Conns : pc'[c] = pc[c]
        /\ sent'.req.type.t # "str")
       => sent'.type = "error"]_vars

\* C14: a handler that has written an error is back at ReadMessage with its
\* connection registered, and a handler ends only from ReadMessage failing
\* (or from a failed upgrade, before the loop), never from a message.
C14_ErrorsKeepLoop ==
    /\ []((sent.type = "error") => pc[sent.conn] = "read" /\ Registered(sent.conn))
    /\ [][\A c \in Conns :
             (pc[c] # "done" /\ pc'[c] = "done")
             => pc[c] \in {"new", "read"} /\ sent' = NoSent /\ msgs' = msgs]_vars

\* A persistence failure has been reported and the handler reads on.
C14_Witness ==
    /\ sent.type = "error"
    /\ sent.obs.saveScan = "err"
    /\ pc[sent.conn] = "read"
    /\ Registered(sent.conn)

\* C15: a scan whose image is no string, whose totalWeight is no number or
\* whose image does not decode is answered at once with an error; ProcessImage
\* is not called and the pending store stays as it is.
C15_BadScanRejected ==
    [][\A c \in Conns :
          (/\ ReadsMsg(c, "scan")
           /\ LET d == MsgRead(c).data
              IN  \/ d.image.t # "str"
                  \/ d.totalWeight.t # "num"
                  \/ Base64Decode(d.image.v) = DecodeError)
          => /\ Answers(c, "scan")
             /\ sent'.type = "error"
             /\ pc'[c] = "read"
             /\ tempImageData' = tempImageData]_vars

\* An undecodable image has been refused while a scan is pending.
C15_Witness ==
    /\ sent.type = "error"
    /\ sent.message = "Invalid image format"
    /\ TypeIs(sent.req, "scan")
    /\ DOMAIN tempImageData # {}

\* C16: no scan_result carries a negative total weight.
C16_NoNegativeWeight == \A r \in issued : r.data.total_weight >= 0

\* C17: a confirm_scan whose id is missing, no string or no key of the
\* pending store is answered at once with an error, and the pending store and
\* both tables stay as they are.
C17_ConfirmMissFrame ==
    [][\A c \in Conns :
          (/\ ReadsMsg(c, "confirm_scan")
           /\ LET id == MsgRead(c).data.id
              IN  id.t # "str" \/ id.v \notin DOMAIN tempImageData)
          => /\ Answers(c, "confirm_scan")
             /\ sent'.type = "error"
             /\ UNCHANGED <<tempImageData, nutritional_info, nutrition_scans>>]_vars

\* A confirm_scan with a number for an id has been refused while a scan is
\* pending.
C17_Witness ==
    /\ sent.type = "error"
    /\ sent.message = "Invalid nutrition info ID format"
    /\ sent.req.data.id.t = "num"
    /\ DOMAIN tempImageData # {}

\* The items of a history reply, and the sum of one field over the items at
\* the given positions.
HistoryIds(reply) == {reply.data.items[i].id : i \in DOMAIN reply.data.items}
RECURSIVE SumField(_, _, _)
SumField(items, idx, field) ==
    IF idx = {} THEN 0
    ELSE LET i == CHOOSE j \in idx : TRUE
         IN  items[i][field] + SumField(items, idx \ {i}, field)
TotalFields == {"calories", "protein", "carbs", "fat"}
TotalOver(items, idx) == [f \in TotalFields |-> SumField(items, idx, f)]

\* The rows saved later than row X.
NewerThan(X) ==
    {id \in DOMAIN nutritional_info :
        nutritional_info[id].created_at.t > nutritional_info[X].created_at.t}

\* C18: a history reply written after scan_saved answered the confirm of X,
\* on the day X was saved and with at most 19 newer rows, lists X among its
\* items and has a day_total whose calories include those of X.
C18_SavedInHistory ==
    (sent.type = "history") =>
        \A X \in DOMAIN acked :
           (/\ X \in DOMAIN nutritional_info
            /\ StartOfDay(nutritional_info[X].created_at.t) = StartOfDay(clock)
            /\ Cardinality(NewerThan(X)) <= 19)
           => /\ X \in HistoryIds(sent)
              /\ sent.data.day_total.calories >= nutritional_info[X].calories

\* C19: in a history reply, week_total counts the records created at
\* startOfWeek or later and none created before it.
C19_WeekStartCounts ==
    (sent.type = "history") =>
        LET items == sent.data.items
        IN  sent.data.week_total.calories =
               SumField(items, {i \in DOMAIN items :
                                   items[i].created_at >= StartOfWeek(clock)}, "calories")

\* C20: in a history reply, week_total is the sum of calories, protein, carbs
\* and fat over the items created strictly after startOfWeek, day_total the
\* same over the items created strictly after startOfDay, and neither has
\* another component.
C20_TotalsExact ==
    (sent.type = "history") =>
        LET items == sent.data.items
        IN  /\ sent.data.week_total =
                  TotalOver(items, {i \in DOMAIN items :
                                       items[i].created_at > StartOfWeek(clock)})
            /\ sent.data.day_total =
                  TotalOver(items, {i \in DOMAIN items :
                                       items[i].created_at > StartOfDay(clock)})
            /\ DOMAIN sent.data.week_total = TotalFields
            /\ DOMAIN sent.data.day_total = TotalFields

\* A history with one record of this week but not of today, and one of today.
C20_Witness ==
    /\ sent.type = "history"
    /\ Len(sent.data.items) = 2
    /\ sent.data.week_total.calories > sent.data.day_total.calories
    /\ sent.data.day_total.calories > 0
    /\ sent.data.week_total.fat # sent.data.week_total.protein

\* C21: in a history reply over records with non-negative values, startOfDay
\* is not before startOfWeek, the items after startOfDay are among the items
\* after startOfWeek, and each of the four components of day_total is at most
\* the same component of week_total.
C21_DayWithinWeek ==
    (sent.type = "history") =>
        LET items == sent.data.items
            today == {i \in DOMAIN items : items[i].created_at > StartOfDay(clock)}
            week  == {i \in DOMAIN items : items[i].created_at > StartOfWeek(clock)}
        IN  (\A i \in DOMAIN items : \A f \in TotalFields : items[i][f] >= 0) =>
               /\ StartOfWeek(clock) <= StartOfDay(clock)
               /\ today \subseteq week
               /\ \A f \in TotalFields :
                     sent.data.day_total[f] <= sent.data.week_total[f]

\* A history written on the second day of the week with a record of today
\* and an older one of this week.
C21_Witness ==
    /\ sent.type = "history"
    /\ StartOfWeek(clock) < StartOfDay(clock)
    /\ sent.data.day_total.protein > 0
    /\ sent.data.day_total.protein < sent.data.week_total.protein

\* The record a history item encodes, the rearrangements of n positions, and
\* a list with two positions exchanged.
InfoOfJSON(j) ==
    [ID |-> j.id, TotalWeight |-> j.total_weight, Calories |-> j.calories,
     Protein |-> j.protein, Carbs |-> j.carbs, Fat |-> j.fat, Fiber |-> j.fiber,
     Sugar |-> j.sugar, ImagePath |-> j.image_path, CreatedAt |-> j.created_at,
     UpdatedAt |-> j.updated_at]
Rearrangements(n) ==
    {p \in [1..n -> 1..n] : \A i, j \in 1..n : p[i] = p[j] => i = j}
Exchanged(list, a, b) ==
    [i \in DOMAIN list |-> IF i = a THEN list[b] ELSE IF i = b THEN list[a] ELSE list[i]]

C23_LatestTwenty ==
    (sent.type = "history") =>
        LET items == sent.data.items
            n     == Len(items)
            at(id) == nutritional_info[id].created_at.t
        IN  /\ n <= 20
            /\ n = Min(20, Cardinality(DOMAIN nutritional_info))
            /\ \A i \in 1..n :
                  /\ items[i].id \in DOMAIN nutritional_info
                  /\ NutrientsOfJSON(items[i]) = NutrientsOfRow(nutritional_info[items[i].id])
                  /\ items[i].total_weight = nutritional_info[items[i].id].total_weight
            /\ \A i, j \in 1..n :
                  i < j => items[i].id # items[j].id /\ at(items[i].id) >= at(items[j].id)
            /\ \A id \in DOMAIN nutritional_info \ HistoryIds(sent) :
                  \A i \in 1..n : at(items[i].id) >= at(id)

\* A history of 20 records over a table of 21, of ever older records.
C23_Witness ==
    /\ sent.type = "history"
    /\ Len(sent.data.items) = 20
    /\ Cardinality(DOMAIN nutritional_info) = 21
    /\ nutritional_info[sent.data.items[1].id].created_at.t
          > nutritional_info[sent.data.items[20].id].created_at.t

\* The states in which a handler has a message in hand, and the steps in which
\* connection c's handler can take a message from its connection.
Busy(c) == pc[c] \notin {"new", "read", "done"}
ReadStep(c) ==
    \/ RecvUnparsable(c) \/ RecvInvalidType(c) \/ RecvUnknownType(c)
    \/ HandleScanValidate(c) \/ HandleConfirmLoad(c) \/ HandleGetHistory(c)

\* C24: a message is read only by a handler that waits in its loop with no
\* message in hand, and the step touches no other handler; a handler keeps
\* the message in hand until it is back in its loop, which it reaches by
\* writing the response to that message; and every response is written for
\* the message just read or the message in hand.
C24_OneAtATime ==
    [][/\ (msgs' = msgs + 1) =>
             \E c \in Conns :
                /\ pc[c] = "read" /\ loc[c] = IdleLoc /\ alive[c]
                /\ sent'.conn \in {0, c}
                /\ \A b \in Conns \ {c} : pc'[b] = pc[b] /\ loc'[b] = loc[b]
       /\ \A c \in Conns :
             /\ (Busy(c) /\ pc'[c] \notin {"read", "done"}) => loc'[c].msg = loc[c].msg
             /\ (Busy(c) /\ pc'[c] = "read") => sent'.conn = c /\ msgs' = msgs
             /\ (sent'.conn = c) =>
                   /\ pc'[c] = "read" /\ loc'[c] = IdleLoc
                   /\ IF msgs' = msgs + 1 THEN pc[c] = "read"
                      ELSE Busy(c) /\ sent'.req = loc[c].msg]_vars

\* The second message of a connection answered after its first, the other
\* connection not yet accepted.
C24_Witness ==
    /\ msgs = 2
    /\ pc[2] = "new"
    /\ sent.conn = 1
    /\ sent.type = "scan_saved"
    /\ sent.req.data.id.v \in IssuedIds

\* C25: a handler with a message in hand takes no further message; a handler
\* waiting in its loop on an open connection can take a scan, a confirm_scan
\* and a get_history; and a handler with a message in hand can take its next
\* step, whatever the other handlers are doing.
C25_HandlersIndependent ==
    \A c \in Conns :
       /\ Busy(c) => ~ENABLED ReadStep(c)
       /\ (pc[c] = "read" /\ alive[c] /\ msgs < MaxMsgs) =>
             /\ ENABLED HandleScanValidate(c)
             /\ ENABLED HandleConfirmLoad(c)
             /\ ENABLED HandleGetHistory(c)
       /\ (pc[c] = "analyzing") => ENABLED HandleScanStore(c) /\ ENABLED HandleScanFail(c)
       /\ (pc[c] = "send_result") => ENABLED HandleScanSend(c)
       /\ (pc[c] = "confirm_loaded") => ENABLED HandleConfirmDelete(c)
       /\ (pc[c] = "confirm_save_info") => ENABLED HandleConfirmSaveInfo(c)
       /\ (pc[c] = "confirm_save_scan") => ENABLED HandleConfirmSaveScan(c)

\* Connection 1 waits for the Analyzer while connection 2 has had its scan
\* analysed and answered and can read on.
C25_Witness ==
    /\ pc[1] = "analyzing"
    /\ sent.conn = 2
    /\ sent.type = "scan_result"
    /\ sent.delivered
    /\ ENABLED HandleConfirmLoad(2)

\* C26: the step in which a connection closes or its handler terminates
\* leaves the pending store as it is, and the entries made for a terminated
\* handler's scans stay in the store until a confirm_scan consumes them.
C26_CloseKeepsPending ==
    /\ [][\A c \in Conns :
             ((alive[c] /\ ~alive'[c]) \/ (pc[c] # "done" /\ pc'[c] = "done"))
                => tempImageData' = tempImageData]_vars
    /\ [](\A c \in Conns :
             (pc[c] = "done") =>
                \A r \in issued :
                   (r.conn = c /\ r.data.id \notin ConsumedIds)
                      => r.data.id \in DOMAIN tempImageData)

\* A handler has terminated and an entry of its own is still pending.
C26_Witness ==
    \E c \in Conns :
       /\ pc[c] = "done"
       /\ \E r \in issued : r.conn = c /\ r.data.id \in DOMAIN tempImageData

\* C27: the message written after ProcessImage failed is an error with the
\* text "Failed to process image", whatever error ProcessImage returned.
C27_FixedAnalyzerError ==
    (sent.obs.analyzer = "err") =>
        /\ sent.obs.err \in AnalyzerErrors
        /\ sent.type = "error"
        /\ sent.message = "Failed to process image"
        /\ sent.message \notin AnalyzerErrors
        /\ DOMAIN sent = DOMAIN ErrorMsg(sent.conn, sent.req, sent.obs, "")

\* The written error after ProcessImage returned "no response generated".
C27_Witness ==
    /\ sent.type = "error"
    /\ sent.obs.analyzer = "err"
    /\ sent.obs.err = "no response generated"
    /\ sent.delivered

\* C28: the id of every scan_result written is a key of the pending store or
\* was consumed by a confirm_scan; the step that writes a scan_result finds
\* its id in the store already; and a confirm_scan for an id a scan_result
\* carried and no confirm_scan has consumed is not rejected.
C28_StoredBeforeEmitted ==
    /\ [](\A r \in issued : r.data.id \in DOMAIN tempImageData \cup ConsumedIds)
    /\ [][\A c \in Conns :
             /\ (sent'.conn = c /\ sent'.type = "scan_result") =>
                   /\ sent'.data.id \in DOMAIN tempImageData
                   /\ sent'.data.id \in DOMAIN tempImageData'
             /\ (/\ ReadsMsg(c, "confirm_scan")
                 /\ IsStr(MsgRead(c).data.id)
                 /\ MsgRead(c).data.id.v \in CarriedIds \ ConsumedIds)
                => pc'[c] = "confirm_loaded" /\ sent' = NoSent]_vars

\* A confirm_scan sent in reaction to a scan_result has hit.
C28_Witness ==
    \E c \in Conns :
       /\ pc[c] = "confirm_loaded"
       /\ loc[c].msg.data.id.v \in CarriedIds
       /\ loc[c].msg.data.id.v \in DOMAIN tempImageData

\* C29: a connection has one registry entry while its handler has registered
\* and not terminated and none otherwise, no two entries share a connection
\* id, and the registry is empty once every handler has terminated.
C29_RegistryExact ==
    /\ \A c \in Conns :
          Cardinality({e \in clients : e.conn = c}) =
             IF pc[c] \in {"new", "done"} THEN 0 ELSE 1
    /\ \A e1, e2 \in clients : e1.id = e2.id => e1 = e2
    /\ \A e \in clients : e.conn \in Conns
    /\ (\A c \in Conns : pc[c] = "done") => clients = {}

\* One handler has registered and terminated while another is registered.
C29_Witness ==
    /\ pc[1] = "done"
    /\ uuids[1] > 0
    /\ ~Registered(1)
    /\ Registered(2)

\* C30: when the connection has dropped during the analysis of a scan, the
\* handler can still take the Analyzer's result and, on success, stores the
\* pending entry; it then writes the scan_result, which fails and changes
\* nothing but the handler's return to its loop; there it can read nothing
\* and its only step ends the handler with the connection deregistered.
C30_DropDuringAnalysis ==
    /\ [](\A c \in Conns :
             /\ (pc[c] = "analyzing" /\ ~alive[c]) =>
                   ENABLED HandleScanStore(c) /\ ENABLED HandleScanFail(c)
             /\ (pc[c] = "send_result" /\ ~alive[c]) => ENABLED HandleScanSend(c)
             /\ (pc[c] = "read" /\ ~alive[c]) =>
                   ENABLED ReadFail(c) /\ ~ENABLED ReadStep(c))
    /\ [][\A c \in Conns :
             /\ (pc[c] = "analyzing" /\ ~alive[c] /\ pc'[c] = "send_result") =>
                   /\ loc'[c].info.ID \notin DOMAIN tempImageData
                   /\ loc'[c].info.ID \in DOMAIN tempImageData'
                   /\ tempImageData'[loc'[c].info.ID] = loc[c].imageData
             /\ (pc[c] = "send_result" /\ ~alive[c] /\ pc'[c] # "send_result") =>
                   /\ sent'.conn = c /\ sent'.type = "scan_result"
                   /\ ~sent'.delivered
                   /\ pc'[c] = "read"
                   /\ UNCHANGED <<alive, clients, tempImageData, db, acked, failed>>
             /\ (pc[c] = "analyzing" /\ ~alive[c] /\ pc'[c] = "read") =>
                   /\ sent'.conn = c /\ sent'.type = "error"
                   /\ ~sent'.delivered
                   /\ UNCHANGED <<alive, clients, tempImageData, db, log>>
             /\ (pc[c] = "read" /\ ~alive[c] /\ pc'[c] # "read") =>
                   pc'[c] = "done" /\ ~Registered(c)']_vars

\* A handler has terminated after the write of its scan_result failed, its
\* pending entry in the store.
C30_Witness ==
    \E c \in Conns :
       /\ pc[c] = "done"
       /\ ~Registered(c)
       /\ \E r \in issued :
             r.conn = c /\ ~r.delivered /\ r.data.id \in DOMAIN tempImageData

\* C31: when an error answers a confirm_scan, that confirm's
\* SaveNutritionalInfo has not succeeded and left a row for its id.
C31_ErrorPersistsNothing ==
    (/\ sent.type = "error"
     /\ TypeIs(sent.req, "confirm_scan")
     /\ IsStr(sent.req.data.id))
    => ~(/\ sent.obs.saveInfo = "ok"
         /\ sent.req.data.id.v \in DOMAIN nutritional_info)

Outbound == {"scan_result", "scan_saved", "history", "error"}

\* C32: the step that reads a message with a parsed envelope either writes
\* one message to its connection and leaves the handler in its loop, or
\* takes the message up without writing; while the message is in hand the
\* handler writes nothing and does not terminate; and the step that takes it
\* back to its loop writes one message, of type scan_result, scan_saved,
\* history or error, for the message in hand.
C32_ExactlyOneReply ==
    [][\A c \in Conns :
          /\ (msgs' = msgs + 1 /\ pc[c] = "read" /\ (pc'[c] # "read" \/ sent'.conn = c)) =>
                \/ sent'.conn = c /\ sent'.type \in Outbound /\ pc'[c] = "read"
                \/ sent' = NoSent /\ Busy(c)' /\ loc'[c].msg.type.t = "str"
          /\ (Busy(c) /\ pc'[c] # pc[c]) =>
                \/ Busy(c)' /\ sent' = NoSent /\ loc'[c].msg = loc[c].msg
                \/ /\ pc'[c] = "read"
                   /\ sent'.conn = c
                   /\ sent'.type \in Outbound
                   /\ sent'.req = loc[c].msg
          /\ (sent'.conn = c) =>
                /\ sent'.type \in Outbound
                /\ msgs' = msgs + 1 \/ Busy(c)
                /\ sent'.req.type.t # "str" => sent'.type = "error"]_vars

\* Three messages of one connection, each answered: a scan, its confirm and
\* a get_history.
C32_Witness ==
    /\ msgs = 3
    /\ sent.type = "history"
    /\ sent.delivered
    /\ acked # EmptyMap
    /\ Len(sent.data.items) = 1

\* C33: a confirm_scan for a pending id is taken up on whichever connection
\* it arrives, whatever became of the connection whose scan made the entry;
\* its Delete removes the entry; and when both saves succeed scan_saved is
\* written to the connection the confirm came from.
C33_PendingNotBound ==
    [][\A c \in Conns :
          /\ (/\ ReadsMsg(c, "confirm_scan")
              /\ IsStr(MsgRead(c).data.id)
              /\ MsgRead(c).data.id.v \in DOMAIN tempImageData)
             => /\ pc'[c] = "confirm_loaded"
                /\ sent' = NoSent
                /\ loc'[c].imageData = tempImageData[MsgRead(c).data.id.v]
          /\ (pc[c] = "confirm_loaded" /\ pc'[c] # "confirm_loaded")
             => /\ pc'[c] = "confirm_save_info"
                /\ loc[c].msg.data.id.v \notin DOMAIN tempImageData'
          /\ (/\ pc[c] = "confirm_save_scan"
              /\ pc'[c] # "confirm_save_scan"
              /\ nutrition_scans' # nutrition_scans)
             => /\ sent'.conn = c
                /\ sent'.type = "scan_saved"
                /\ sent'.req = loc[c].msg]_vars

\* Connection 2 is answered scan_saved for an id made for connection 1, whose
\* handler has terminated.
C33_Witness ==
    /\ sent.type = "scan_saved"
    /\ sent.conn = 2
    /\ sent.req.data.id.v[1] = 1
    /\ pc[1] = "done"
    /\ sent.req.data.id.v \notin DOMAIN tempImageData

\* The sum of one column over the given rows of nutritional_info.
RECURSIVE SumRows(_, _)
SumRows(ids, field) ==
    IF ids = {} THEN 0
    ELSE LET id == CHOOSE x \in ids : TRUE
         IN  nutritional_info[id][field] + SumRows(ids \ {id}, field)

\* C34: in a history reply, each component of week_total and day_total is the
\* sum of that column over the persisted rows that are listed in the reply and
\* lie after the start of the week or day, so that a row not listed adds to
\* neither total: with such a row in the current week, week_total stays below
\* the sum over all persisted rows of the week by at least that row.
C34_TotalsOverItemsOnly ==
    (sent.type = "history") =>
        LET items == sent.data.items
            Listed(start) == {items[i].id : i \in {j \in DOMAIN items :
                                                      items[j].created_at > start}}
            InWeek == {id \in DOMAIN nutritional_info :
                          nutritional_info[id].created_at.t > StartOfWeek(clock)}
        IN  /\ \A f \in TotalFields :
                  /\ sent.data.week_total[f] = SumRows(Listed(StartOfWeek(clock)), f)
                  /\ sent.data.day_total[f] = SumRows(Listed(StartOfDay(clock)), f)
            /\ \A id \in InWeek \ HistoryIds(sent) :
                  \A f \in TotalFields :
                     sent.data.week_total[f] <=
                        SumRows(InWeek, f) - nutritional_info[id][f]

\* A history of 20 records whose week_total counts them, while a 21st record
\* of the same week is persisted with calories of its own.
C34_Witness ==
    /\ sent.type = "history"
    /\ Len(sent.data.items) = 20
    /\ sent.data.week_total.calories > 0
    /\ \E id \in DOMAIN nutritional_info \ HistoryIds(sent) :
          /\ nutritional_info[id].created_at.t > StartOfWeek(clock)
          /\ nutritional_info[id].calories > 0

\* C35: the step that reads a get_history leaves the pending store, the three
\* tables and the connection registry as they are and writes one message to
\* the connection: a history, or when the read of the table fails the error
\* "Failed to retrieve history".
C35_HistoryReadOnly ==
    [][\A c \in Conns :
          ReadsMsg(c, "get_history") =>
             /\ UNCHANGED <<tempImageData, nutritional_info, nutrition_scans, scanResult,
                            clients>>
             /\ Answers(c, "get_history")
             /\ \/ sent'.type = "history"
                \/ sent'.type = "error" /\ sent'.message = "Failed to retrieve history"]_vars

\* The read of the table has failed while an entry is pending.
C35_Witness ==
    /\ sent.type = "error"
    /\ sent.message = "Failed to retrieve history"
    /\ DOMAIN tempImageData # {}
    /\ Registered(sent.conn)

\* The number of scan_saved replies written so far.
RECURSIVE SumAcked(_)
SumAcked(ids) ==
    IF ids = {} THEN 0
    ELSE LET id == CHOOSE x \in ids : TRUE
         IN  acked[id] + SumAcked(ids \ {id})

\* C36: a confirm answered scan_saved has left a nutritional_info row under
\* the id it named, an id a scan_result carried; every scan record is stored
\* under an id that is no scan id and no key of nutritional_info and holds
\* the NutritionalInfo of a scan id; and there are as many scan records as
\* scan_saved replies, each save having taken an id no other record has.
C36_InfoIdKeptScanIdFresh ==
    /\ (sent.type = "scan_saved") =>
          sent.req.data.id.v \in DOMAIN nutritional_info \cap CarriedIds
    /\ \A X \in DOMAIN acked : X \in DOMAIN nutritional_info \cap CarriedIds
    /\ \A s \in DOMAIN nutrition_scans :
          /\ s \notin IssuedIds
          /\ s \notin DOMAIN nutritional_info
          /\ s \notin DOMAIN tempImageData
          /\ scanResult[s] # s
          /\ scanResult[s] \in DOMAIN acked
    /\ Cardinality(DOMAIN nutrition_scans) = SumAcked(DOMAIN acked)

\* Two scan records have been saved.
C36_Witness ==
    /\ Cardinality(DOMAIN nutrition_scans) = 2
    /\ sent.type = "scan_saved"
    /\ DOMAIN nutritional_info # {}

====
